---- MODULE Spec2Model ----
(***************************************************************************)
(* A model of src/server.js: the multi-session WhatsApp bot.               *)
(*                                                                         *)
(*  - the session registry `sessions`, the rate window registry            *)
(*    `messageTracker`, the credential directories and pairing images;     *)
(*  - GET /qr/:sessionId, startSession and the connection.update handler,  *)
(*    each cut at its await points;                                        *)
(*  - POST /send/:sessionId with its sliding-window admission;             *)
(*  - POST /send-bulk/:sessionId, one step per await of its loop.          *)
(*                                                                         *)
(* Node runs one turn of one callback at a time: an action is the code     *)
(* between two awaits.                                                     *)
(***************************************************************************)
EXTENDS Naturals, Integers, Sequences, FiniteSets

VARIABLES
    sessions,        \* server.js:21   sessionId -> { sock, isConnected, currentQR }
    messageTracker,  \* server.js:24   sessionId -> [timestamps]
    authDir,         \* auth/<sessionId> exists on disk
    qrFile,          \* qr_codes/<sessionId>.png: "" when absent, else the payload written
    socks,           \* the handles makeWASocket has returned, in order of creation
    qreqs,           \* the GET /qr requests
    handlers,        \* the connection.update handler invocations suspended at an await
    nEvents,         \* connection.update events emitted so far
    lastClose,       \* what the most recent 'close' handling did
    loggedOut,       \* ids whose logged-out teardown ran with no startSession call since
    unhandled,       \* the handler branches that have thrown (rejected promises)
    clock,           \* Date.now()
    sends,           \* the POST /send requests suspended at an await
    admitLog,        \* per id, the timestamps of every admitted single send
    lastCheck,       \* what the most recent admission check did
    retryAt,         \* per id, the time a rejected caller was told to come back at
    lastSend,        \* the most recent POST /send response
    nSends,          \* POST /send requests received so far
    nTicks,          \* clock advances so far
    bulk             \* the POST /send-bulk request in progress

vars == <<sessions, messageTracker, authDir, qrFile, socks, qreqs, handlers,
          nEvents, lastClose, loggedOut, unhandled, clock, sends, admitLog,
          lastCheck, retryAt, lastSend, nSends, nTicks, bulk>>

sendVars == <<clock, sends, admitLog, lastCheck, retryAt, lastSend, nSends, nTicks>>

----------------------------------------------------------------------------
(* Program constants *)

MESSAGE_LIMIT == 10
TIME_WINDOW == 600000
QR_TIMEOUT == 10000
POLL_INTERVAL == 500
RETRY_BACKOFF == 2000
BULK_PACING == 500

(* Bounds of the model *)

MaxQrReqs == 2
MaxSocks == 2
MaxEvents == 3
MaxSends == 4
MaxTicks == 2
MaxInflight == 1
Backlog == 8
MaxRecipients == 3

Ids == {"s1"}
QRs == {"qr1"}

----------------------------------------------------------------------------
(* Values *)

NoSession == [present |-> FALSE, sock |-> 0, isConnected |-> FALSE, currentQR |-> ""]
NoTracker == [present |-> FALSE, ts |-> <<>>]
NoClose == [sid |-> "", reason |-> "none", wasAbsent |-> FALSE, changed |-> FALSE,
            threw |-> FALSE]
IdleReq == [pc |-> "idle", sid |-> "", elapsed |-> 0, resp |-> "none"]

RemoveAt(s, i) == [k \in 1..(Len(s) - 1) |-> IF k < i THEN s[k] ELSE s[k + 1]]

(* Math.ceil(n / d) for an integer n >= 0 and d > 0 *)
CeilDiv(n, d) == (n + d - 1) \div d

----------------------------------------------------------------------------
(* startSession: the calls in flight, by whoever awaits them *)

PendingStarts ==
    Cardinality({r \in DOMAIN qreqs : qreqs[r].pc \in {"ss_auth", "ss_version"}})
    + Cardinality({h \in DOMAIN handlers : handlers[h].pc \in {"ss_auth", "ss_version"}})

(* A new startSession call may begin only while the model has a handle left for it *)
CanStart == Len(socks) + PendingStarts < MaxSocks

(* A record that is born connected *)
NewSessionConnected(h) ==
    [present |-> TRUE, sock |-> h, isConnected |-> TRUE, currentQR |-> ""]

(* server.js:36-42  makeWASocket, then sessions[sessionId] = {...} *)
NewSession(h) == [present |-> TRUE, sock |-> h, isConnected |-> FALSE, currentQR |-> ""]

MakeSocket(id) ==
    /\ socks' = Append(socks, [sid |-> id, live |-> TRUE, opened |-> FALSE])
    /\ sessions' = [sessions EXCEPT ![id] = NewSession(Len(socks) + 1)]

(* The deadline test off by one: Date.now() - start <= timeout *)
WaitForQRInclusive(file, elapsed) ==
    IF elapsed <= QR_TIMEOUT
    THEN (IF file # "" THEN "file" ELSE "sleep")
    ELSE "timeout"

(* server.js:114-121  one turn of waitForQR's loop, `elapsed` being             *)
(* Date.now() - start: "file" (return true), "sleep" (await the 500 ms timer)    *)
(* or "timeout" (return false)                                                   *)
WaitForQRTurn(file, elapsed) ==
    IF elapsed < QR_TIMEOUT
    THEN (IF file # "" THEN "file" ELSE "sleep")
    ELSE "timeout"

(* server.js:111-128  the request from waitForQR's turn on: res.sendFile, 504,  *)
(* or suspended on the timer                                                      *)
AfterWaitTurn(req, file, elapsed) ==
    LET t == WaitForQRTurn(file, elapsed)
    IN  IF t = "sleep"
        THEN [req EXCEPT !.pc = "sleep", !.elapsed = elapsed]
        ELSE [req EXCEPT !.pc = "done", !.elapsed = elapsed, !.resp = t]

----------------------------------------------------------------------------
(* GET /qr/:sessionId  (server.js:100-129) *)

(* server.js:100-109, 29-33  the request arrives and runs to its first await *)
QrRequest(r, id) ==
    /\ qreqs[r].pc = "idle"
    /\ (IF r = 1 THEN TRUE ELSE qreqs[r - 1].pc # "idle")
    /\ IF sessions[id].present /\ sessions[id].isConnected
       THEN /\ qreqs' = [qreqs EXCEPT ![r] = [pc |-> "done", sid |-> id, elapsed |-> 0,
                                              resp |-> "connected"]]
            /\ UNCHANGED <<authDir, loggedOut>>
       ELSE IF ~sessions[id].present
       THEN /\ CanStart
            /\ authDir' = [authDir EXCEPT ![id] = TRUE]
            /\ loggedOut' = [loggedOut EXCEPT ![id] = FALSE]
            /\ qreqs' = [qreqs EXCEPT ![r] = [pc |-> "ss_auth", sid |-> id, elapsed |-> 0,
                                              resp |-> "none"]]
       ELSE /\ qreqs' = [qreqs EXCEPT ![r] =
                            AfterWaitTurn([IdleReq EXCEPT !.sid = id], qrFile[id], 0)]
            /\ UNCHANGED <<authDir, loggedOut>>
    /\ UNCHANGED <<sessions, messageTracker, qrFile, socks, handlers, nEvents, lastClose,
                   unhandled, sendVars, bulk>>

(* server.js:33  useMultiFileAuthState resolves for the request's startSession *)
QrAuthLoaded(r) ==
    /\ qreqs[r].pc = "ss_auth"
    /\ qreqs' = [qreqs EXCEPT ![r].pc = "ss_version"]
    /\ UNCHANGED <<sessions, messageTracker, authDir, qrFile, socks, handlers, nEvents,
                   lastClose, loggedOut, unhandled, sendVars, bulk>>

(* server.js:34-44, 108-123  fetchLatestBaileysVersion resolves: the handle is  *)
(* made and registered, startSession returns and the request enters waitForQR    *)
QrSocketMade(r) ==
    /\ qreqs[r].pc = "ss_version"
    /\ MakeSocket(qreqs[r].sid)
    /\ qreqs' = [qreqs EXCEPT ![r] = AfterWaitTurn(qreqs[r], qrFile[qreqs[r].sid], 0)]
    /\ UNCHANGED <<messageTracker, authDir, qrFile, handlers, nEvents, lastClose,
                   loggedOut, unhandled, sendVars, bulk>>

(* server.js:116-118  the 500 ms timer fires, `d` >= 500 ms after it was set *)
PollWake(r, d) ==
    /\ qreqs[r].pc = "sleep"
    /\ d >= POLL_INTERVAL
    /\ qreqs' = [qreqs EXCEPT ![r] =
                    AfterWaitTurn(qreqs[r], qrFile[qreqs[r].sid], qreqs[r].elapsed + d)]
    /\ UNCHANGED <<sessions, messageTracker, authDir, qrFile, socks, handlers, nEvents,
                   lastClose, loggedOut, unhandled, sendVars, bulk>>

----------------------------------------------------------------------------
(* sock.ev.on('connection.update', ...)  (server.js:46-95) *)

Absent(id) ==
    /\ ~sessions[id].present
    /\ ~messageTracker[id].present
    /\ ~authDir[id]
    /\ qrFile[id] = ""

(* fs.rmSync without force: a missing path is ENOENT *)
RmSyncNoForce(exists) == ~exists

(* server.js:72  fs.rmSync(dir, { recursive: true, force: true }): with force,   *)
(* a missing path is no error                                                     *)
RmSyncThrows(exists) == FALSE

(* A close handling that leaves the image where it is *)
UnlinkNever(file) == file

(* server.js:74-76, 86-88  if (fs.existsSync(qrPath)) fs.unlinkSync(qrPath) *)
UnlinkIfExists(file) == ""

(* server.js:52-53  a pairing challenge arrives: the handler starts              *)
(* qrcode.toFile and is suspended on it                                           *)
EmitQr(h, q) ==
    /\ socks[h].live
    /\ nEvents < MaxEvents
    /\ nEvents' = nEvents + 1
    /\ handlers' = Append(handlers, [sock |-> h, sid |-> socks[h].sid, pc |-> "toFile",
                                     qr |-> q])
    /\ UNCHANGED <<sessions, messageTracker, authDir, qrFile, socks, qreqs, lastClose,
                   loggedOut, unhandled, sendVars, bulk>>

(* server.js:53  qrcode.toFile writes the image *)
ToFileWrite(k) ==
    /\ handlers[k].pc = "toFile"
    /\ qrFile' = [qrFile EXCEPT ![handlers[k].sid] = handlers[k].qr]
    /\ handlers' = [handlers EXCEPT ![k].pc = "resume"]
    /\ UNCHANGED <<sessions, messageTracker, authDir, socks, qreqs, nEvents, lastClose,
                   loggedOut, unhandled, sendVars, bulk>>

(* server.js:54-56  the handler resumes: sessions[sessionId].currentQR = qr,     *)
(* a TypeError when the record is gone                                            *)
ToFileResume(k) ==
    /\ handlers[k].pc = "resume"
    /\ LET id == handlers[k].sid
       IN  IF sessions[id].present
           THEN /\ sessions' = [sessions EXCEPT ![id].currentQR = handlers[k].qr]
                /\ UNCHANGED unhandled
           ELSE /\ unhandled' = unhandled \cup {"qr"}
                /\ UNCHANGED sessions
    /\ handlers' = RemoveAt(handlers, k)
    /\ UNCHANGED <<messageTracker, authDir, qrFile, socks, qreqs, nEvents, lastClose,
                   loggedOut, sendVars, bulk>>

(* server.js:58-61  connection === 'open': the handler finds the record by the *)
(* id it closed over, whichever handle the record holds. socks[h].opened notes   *)
(* that h has reported 'open'                                                     *)
EmitOpen(h) ==
    /\ socks[h].live
    /\ nEvents < MaxEvents
    /\ nEvents' = nEvents + 1
    /\ socks' = [socks EXCEPT ![h].opened = TRUE]
    /\ LET id == socks[h].sid
       IN  IF sessions[id].present
           THEN /\ sessions' = [sessions EXCEPT ![id].isConnected = TRUE]
                /\ UNCHANGED unhandled
           ELSE /\ unhandled' = unhandled \cup {"open"}
                /\ UNCHANGED sessions
    /\ UNCHANGED <<messageTracker, authDir, qrFile, qreqs, handlers, lastClose,
                   loggedOut, sendVars, bulk>>

(* server.js:63-79  connection === 'close' with statusCode loggedOut *)
EmitLoggedOut(h) ==
    /\ socks[h].live
    /\ nEvents < MaxEvents
    /\ nEvents' = nEvents + 1
    /\ socks' = [socks EXCEPT ![h].live = FALSE]
    /\ LET id == socks[h].sid
           threw == RmSyncThrows(authDir[id])
       IN  /\ IF threw
              THEN /\ unhandled' = unhandled \cup {"close"}
                   /\ UNCHANGED <<authDir, qrFile, sessions, messageTracker, loggedOut>>
              ELSE /\ authDir' = [authDir EXCEPT ![id] = FALSE]
                   /\ qrFile' = [qrFile EXCEPT ![id] = UnlinkIfExists(qrFile[id])]
                   /\ sessions' = [sessions EXCEPT ![id] = NoSession]
                   /\ messageTracker' = [messageTracker EXCEPT ![id] = NoTracker]
                   /\ loggedOut' = [loggedOut EXCEPT ![id] = TRUE]
                   /\ UNCHANGED unhandled
           /\ lastClose' = [sid |-> id, reason |-> "loggedOut", wasAbsent |-> Absent(id),
                            changed |-> <<sessions', messageTracker', authDir', qrFile'>>
                                        # <<sessions, messageTracker, authDir, qrFile>>,
                            threw |-> threw]
    /\ UNCHANGED <<qreqs, handlers, sendVars, bulk>>

(* server.js:63-66, 80-92, 29-33  connection === 'close' with any other code:    *)
(* the record, the window and the image go, and startSession is called again     *)
EmitClosed(h) ==
    /\ socks[h].live
    /\ nEvents < MaxEvents
    /\ CanStart
    /\ nEvents' = nEvents + 1
    /\ socks' = [socks EXCEPT ![h].live = FALSE]
    /\ LET id == socks[h].sid
       IN  /\ qrFile' = [qrFile EXCEPT ![id] = UnlinkIfExists(qrFile[id])]
           /\ sessions' = [sessions EXCEPT ![id] = NoSession]
           /\ messageTracker' = [messageTracker EXCEPT ![id] = NoTracker]
           /\ authDir' = [authDir EXCEPT ![id] = TRUE]
           /\ loggedOut' = [loggedOut EXCEPT ![id] = FALSE]
           /\ handlers' = Append(handlers, [sock |-> h, sid |-> id, pc |-> "ss_auth",
                                            qr |-> ""])
           /\ lastClose' = [sid |-> id, reason |-> "other", wasAbsent |-> Absent(id),
                            changed |-> TRUE, threw |-> FALSE]
    /\ UNCHANGED <<qreqs, unhandled, sendVars, bulk>>

(* server.js:33  useMultiFileAuthState resolves for the handler's startSession *)
HandlerAuthLoaded(k) ==
    /\ handlers[k].pc = "ss_auth"
    /\ handlers' = [handlers EXCEPT ![k].pc = "ss_version"]
    /\ UNCHANGED <<sessions, messageTracker, authDir, qrFile, socks, qreqs, nEvents,
                   lastClose, loggedOut, unhandled, sendVars, bulk>>

(* server.js:34-44, 92-95  fetchLatestBaileysVersion resolves: the new handle is *)
(* made and registered, and the close handler that awaited startSession ends     *)
HandlerSocketMade(k) ==
    /\ handlers[k].pc = "ss_version"
    /\ MakeSocket(handlers[k].sid)
    /\ handlers' = RemoveAt(handlers, k)
    /\ UNCHANGED <<messageTracker, authDir, qrFile, qreqs, nEvents, lastClose, loggedOut,
                   unhandled, sendVars, bulk>>


----------------------------------------------------------------------------
(* POST /send/:sessionId  (server.js:132-193) *)

(* The filter keeping a timestamp that is exactly TIME_WINDOW old *)
InWindowInclusive(ts, now) == now - ts <= TIME_WINDOW

(* server.js:145  .filter(ts => now - ts < TIME_WINDOW) *)
InWindow(ts, now) == now - ts < TIME_WINDOW

Prune(ts, now) == SelectSeq(ts, LAMBDA t : InWindow(t, now))

(* The limit test off by one: length > MESSAGE_LIMIT *)
AdmitsOneMore(pruned) == ~(Len(pruned) > MESSAGE_LIMIT)

(* server.js:147  the request goes on unless length >= MESSAGE_LIMIT *)
Admits(pruned) == ~(Len(pruned) >= MESSAGE_LIMIT)

(* server.js:148  Math.ceil((TIME_WINDOW - (now - messageTracker[sessionId][0])) / 1000) *)
RetryAfter(pruned, now) == CeilDiv(TIME_WINDOW - (now - pruned[1]), 1000)

(* server.js:169-186  if (req.file) ... else if (req.body.image) ... else ...:    *)
(* the image is fetched from the URL only when no file was uploaded               *)
ViaUrl(hasFile, hasUrl) == ~hasFile /\ hasUrl

(* The 404 giving the slot back: the admission's timestamp is taken out again *)
RECURSIVE WithoutOne(_, _)
WithoutOne(ts, t) ==
    IF ts = <<>> THEN <<>>
    ELSE IF Head(ts) = t THEN Tail(ts)
    ELSE <<Head(ts)>> \o WithoutOne(Tail(ts), t)

(* server.js:163-165  a recipient that is not registered: the 404 is returned,   *)
(* and the window is left as the admission made it                                *)
WindowAfterNotFound(ts, admittedAt) == ts

(* The gate asking only for a Session record, connected or not *)
SendReadyIfPresent(id) == sessions[id].present

(* server.js:136  !sessions[sessionId] || !sessions[sessionId].isConnected is    *)
(* the 400                                                                        *)
SendReady(id) == sessions[id].present /\ sessions[id].isConnected

(* server.js:136-162  the request arrives and runs to its first await.          *)
(* `isString`: req.body.number is a string (number.includes is callable);        *)
(* `hasFile`, `hasUrl`: the request carries req.file, req.body.image             *)
SendArrive(id, isString, hasFile, hasUrl) ==
    /\ nSends < MaxSends
    /\ Len(sends) < MaxInflight
    /\ nSends' = nSends + 1
    /\ IF ~SendReady(id)
       THEN /\ lastSend' = [sid |-> id, status |-> 400, admittedAt |-> 0, sendCalls |-> 0]
            /\ UNCHANGED <<messageTracker, lastCheck, retryAt, admitLog, sends, unhandled>>
       ELSE LET now == clock
                pruned == Prune(messageTracker[id].ts, now)
                atRetry == retryAt[id] # 0 /\ now = retryAt[id]
            IN  IF ~Admits(pruned)
                THEN /\ messageTracker' = [messageTracker EXCEPT
                                              ![id] = [present |-> TRUE, ts |-> pruned]]
                     /\ lastCheck' = [sid |-> id, now |-> now, admitted |-> FALSE,
                                      retryAfter |-> RetryAfter(pruned, now),
                                      window |-> pruned, atRetry |-> atRetry]
                     /\ retryAt' = [retryAt EXCEPT
                                       ![id] = now + RetryAfter(pruned, now) * 1000]
                     /\ lastSend' = [sid |-> id, status |-> 429, admittedAt |-> 0,
                                     sendCalls |-> 0]
                     /\ UNCHANGED <<admitLog, sends, unhandled>>
                ELSE /\ messageTracker' = [messageTracker EXCEPT
                                              ![id] = [present |-> TRUE,
                                                       ts |-> Append(pruned, now)]]
                     /\ admitLog' = [admitLog EXCEPT ![id] = Append(@, now)]
                     /\ lastCheck' = [sid |-> id, now |-> now, admitted |-> TRUE,
                                      retryAfter |-> 0, window |-> pruned,
                                      atRetry |-> atRetry]
                     /\ retryAt' = [retryAt EXCEPT ![id] = 0]
                     /\ IF isString
                        THEN /\ sends' = Append(sends,
                                    [sid |-> id, sock |-> sessions[id].sock,
                                     pc |-> "onWhatsApp", viaUrl |-> ViaUrl(hasFile, hasUrl),
                                     admittedAt |-> now, sendCalls |-> 0])
                             /\ UNCHANGED <<lastSend, unhandled>>
                        ELSE /\ unhandled' = unhandled \cup {"send"}
                             /\ lastSend' = [sid |-> id, status |-> 0, admittedAt |-> now,
                                             sendCalls |-> 0]
                             /\ UNCHANGED sends
    /\ UNCHANGED <<sessions, authDir, qrFile, socks, qreqs, handlers, nEvents, lastClose,
                   loggedOut, clock, nTicks, bulk>>

(* server.js:162-186  sock.onWhatsApp settles: "missing" is the 404, "throws"    *)
(* the 500; with "exists" the request goes on to axios.get (an image URL and no  *)
(* file) or calls sock.sendMessage                                                *)
SendQueried(k, outcome) ==
    /\ sends[k].pc = "onWhatsApp"
    /\ LET q == sends[k]
       IN  CASE outcome = "missing" ->
                  /\ messageTracker' = [messageTracker EXCEPT ![q.sid].ts =
                                           WindowAfterNotFound(@, q.admittedAt)]
                  /\ lastSend' = [sid |-> q.sid, status |-> 404,
                                  admittedAt |-> q.admittedAt, sendCalls |-> q.sendCalls]
                  /\ sends' = RemoveAt(sends, k)
             [] outcome = "throws" ->
                  /\ lastSend' = [sid |-> q.sid, status |-> 500,
                                  admittedAt |-> q.admittedAt, sendCalls |-> q.sendCalls]
                  /\ sends' = RemoveAt(sends, k)
                  /\ UNCHANGED messageTracker
             [] outcome = "exists" /\ q.viaUrl ->
                  /\ sends' = [sends EXCEPT ![k].pc = "axios"]
                  /\ UNCHANGED <<messageTracker, lastSend>>
             [] outcome = "exists" /\ ~q.viaUrl ->
                  /\ sends' = [sends EXCEPT ![k].pc = "sendMessage",
                                            ![k].sendCalls = @ + 1]
                  /\ UNCHANGED <<messageTracker, lastSend>>
    /\ UNCHANGED <<sessions, authDir, qrFile, socks, qreqs, handlers, nEvents, lastClose,
                   loggedOut, unhandled, clock, admitLog, lastCheck, retryAt, nSends,
                   nTicks, bulk>>

(* server.js:178-182, 189-192  axios.get settles: sendMessage is called with the *)
(* bytes, or the error is the 500                                                 *)
SendFetched(k, ok) ==
    /\ sends[k].pc = "axios"
    /\ IF ok
       THEN /\ sends' = [sends EXCEPT ![k].pc = "sendMessage", ![k].sendCalls = @ + 1]
            /\ UNCHANGED lastSend
       ELSE /\ lastSend' = [sid |-> sends[k].sid, status |-> 500,
                            admittedAt |-> sends[k].admittedAt,
                            sendCalls |-> sends[k].sendCalls]
            /\ sends' = RemoveAt(sends, k)
    /\ UNCHANGED <<sessions, messageTracker, authDir, qrFile, socks, qreqs, handlers,
                   nEvents, lastClose, loggedOut, unhandled, clock, admitLog, lastCheck,
                   retryAt, nSends, nTicks, bulk>>

(* server.js:171-192  sock.sendMessage settles: the 200, or the 500 *)
SendSettled(k, ok) ==
    /\ sends[k].pc = "sendMessage"
    /\ lastSend' = [sid |-> sends[k].sid, status |-> (IF ok THEN 200 ELSE 500),
                    admittedAt |-> sends[k].admittedAt, sendCalls |-> sends[k].sendCalls]
    /\ sends' = RemoveAt(sends, k)
    /\ UNCHANGED <<sessions, messageTracker, authDir, qrFile, socks, qreqs, handlers,
                   nEvents, lastClose, loggedOut, unhandled, clock, admitLog, lastCheck,
                   retryAt, nSends, nTicks, bulk>>

(* Time passes: Date.now() is `d` ms later *)
Tick(d) ==
    /\ nTicks < MaxTicks
    /\ nTicks' = nTicks + 1
    /\ clock' = clock + d
    /\ UNCHANGED <<sessions, messageTracker, authDir, qrFile, socks, qreqs, handlers,
                   nEvents, lastClose, loggedOut, unhandled, sends, admitLog, lastCheck,
                   retryAt, lastSend, nSends, bulk>>

(* Time passes until the moment a rejected caller of `id` was told to retry at *)
TickToRetry(id) ==
    /\ retryAt[id] > clock
    /\ Tick(retryAt[id] - clock)

----------------------------------------------------------------------------
(* POST /send-bulk/:sessionId  (server.js:195-281) *)

(* An element of req.body.numbers: a string, or a JSON value that is not one *)
Recipients == {[isString |-> TRUE, name |-> "A"],
               [isString |-> TRUE, name |-> "B"],
               [isString |-> FALSE, name |-> "N"]}

NumberLists == UNION {[1..n -> Recipients] : n \in 0..MaxRecipients}

Call(op, i, ms) == [op |-> op, i |-> i, ms |-> ms]

(* Retrying whatever the request asked for *)
RetryAlways(retryFailed) == TRUE

(* server.js:241  if (retryFailed) *)
ShouldRetry(retryFailed) == retryFailed

(* server.js:219-226, 268-280  the top of the loop for index i (0-based):       *)
(* past the end, the 200 with the summary; a number without .includes throws     *)
(* outside the try; otherwise sock.onWhatsApp is called and awaited               *)
LoopHead(b, i) ==
    IF ~(i < Len(b.numbers))
    THEN [b EXCEPT !.pc = "done", !.i = i, !.status = 200,
                   !.processed = b.successCount + b.failCount + b.skippedCount]
    ELSE IF ~b.numbers[i + 1].isString
    THEN [b EXCEPT !.pc = "aborted", !.i = i]
    ELSE [b EXCEPT !.pc = "onWhatsApp", !.i = i,
                   !.calls = Append(@, Call("onWhatsApp", i, 0))]

(* server.js:264-266  await delay(500) at the end of the loop body *)
Pace(b) == [b EXCEPT !.pc = "pacing", !.calls = Append(@, Call("delay", b.i, BULK_PACING))]

Entry(b, status, reason) ==
    [number |-> b.numbers[b.i + 1], status |-> status, reason |-> reason]

(* The gate that also asks the rate limiter for room *)
BulkReadyLimited(id) ==
    /\ sessions[id].present
    /\ sessions[id].isConnected
    /\ ~(messageTracker[id].present /\ Len(messageTracker[id].ts) >= MESSAGE_LIMIT)

(* server.js:203  !sessions[sessionId] || !sessions[sessionId].isConnected is    *)
(* the 400; the route has no other gate                                           *)
BulkReady(id) == sessions[id].present /\ sessions[id].isConnected

(* server.js:195-226  the request arrives and runs to its first await *)
BulkArrive(id, isArray, numbers, hasMessage, retryFailed) ==
    /\ bulk.pc = "idle"
    /\ LET b0 == [pc |-> "rejected", sid |-> id, sock |-> 0, numbers |-> numbers,
                  retryFailed |-> retryFailed, i |-> 0, report |-> <<>>,
                  successCount |-> 0, failCount |-> 0, skippedCount |-> 0,
                  processed |-> 0, status |-> 400, calls |-> <<>>, error |-> ""]
       IN  bulk' = IF ~isArray \/ Len(numbers) = 0 \/ ~hasMessage
                   THEN [b0 EXCEPT !.error = "Invalid numbers or message"]
                   ELSE IF ~BulkReady(id)
                   THEN [b0 EXCEPT !.error = "Session not connected"]
                   ELSE LoopHead([b0 EXCEPT !.sock = sessions[id].sock, !.status = 0], 0)
    /\ UNCHANGED <<sessions, messageTracker, authDir, qrFile, socks, qreqs, handlers,
                   nEvents, lastClose, loggedOut, unhandled, sendVars>>

(* server.js:226-235, 258-262  sock.onWhatsApp settles *)
BulkQueried(outcome) ==
    /\ bulk.pc = "onWhatsApp"
    /\ bulk' =
         CASE outcome = "missing" ->
                LoopHead([bulk EXCEPT
                             !.report = Append(@, Entry(bulk, "skipped", "Not registered")),
                             !.skippedCount = @ + 1],
                         bulk.i + 1)
           [] outcome = "throws" ->
                Pace([bulk EXCEPT
                         !.report = Append(@, Entry(bulk, "failed", "unexpected")),
                         !.failCount = @ + 1])
           [] outcome = "exists" ->
                [bulk EXCEPT !.pc = "sendMessage",
                             !.calls = Append(@, Call("sendMessage", bulk.i, 0))]
    /\ UNCHANGED <<sessions, messageTracker, authDir, qrFile, socks, qreqs, handlers,
                   nEvents, lastClose, loggedOut, unhandled, sendVars>>

(* server.js:235-256  the first sock.sendMessage settles *)
BulkSent(ok) ==
    /\ bulk.pc = "sendMessage"
    /\ bulk' =
         IF ok
         THEN Pace([bulk EXCEPT !.report = Append(@, Entry(bulk, "sent", "")),
                                !.successCount = @ + 1])
         ELSE IF ShouldRetry(bulk.retryFailed)
         THEN [bulk EXCEPT !.pc = "backoff",
                           !.calls = @ \o <<Call("sendFailed", bulk.i, 0),
                                            Call("delay", bulk.i, RETRY_BACKOFF)>>]
         ELSE Pace([bulk EXCEPT !.report = Append(@, Entry(bulk, "failed", "send")),
                                !.failCount = @ + 1,
                                !.calls = Append(@, Call("sendFailed", bulk.i, 0))])
    /\ UNCHANGED <<sessions, messageTracker, authDir, qrFile, socks, qreqs, handlers,
                   nEvents, lastClose, loggedOut, unhandled, sendVars>>

(* server.js:244-245  the 2 s timer fires and sock.sendMessage is called again *)
BulkBackedOff ==
    /\ bulk.pc = "backoff"
    /\ bulk' = [bulk EXCEPT !.pc = "retry",
                            !.calls = Append(@, Call("sendMessage", bulk.i, 0))]
    /\ UNCHANGED <<sessions, messageTracker, authDir, qrFile, socks, qreqs, handlers,
                   nEvents, lastClose, loggedOut, unhandled, sendVars>>

(* server.js:245-251  the retry settles *)
BulkRetried(ok) ==
    /\ bulk.pc = "retry"
    /\ bulk' =
         IF ok
         THEN Pace([bulk EXCEPT !.report = Append(@, Entry(bulk, "sent (retry)", "")),
                                !.successCount = @ + 1])
         ELSE Pace([bulk EXCEPT !.report = Append(@, Entry(bulk, "failed", "Retry failed")),
                                !.failCount = @ + 1,
                                !.calls = Append(@, Call("sendFailed", bulk.i, 0))])
    /\ UNCHANGED <<sessions, messageTracker, authDir, qrFile, socks, qreqs, handlers,
                   nEvents, lastClose, loggedOut, unhandled, sendVars>>

(* server.js:265, 219  the 500 ms timer fires: i++ and the loop goes round *)
BulkPaced ==
    /\ bulk.pc = "pacing"
    /\ bulk' = LoopHead(bulk, bulk.i + 1)
    /\ UNCHANGED <<sessions, messageTracker, authDir, qrFile, socks, qreqs, handlers,
                   nEvents, lastClose, loggedOut, unhandled, sendVars>>

----------------------------------------------------------------------------
(* The session lifecycle: GET /qr requests racing with the events of the handles *)

NoCheck == [sid |-> "", now |-> 0, admitted |-> FALSE, retryAfter |-> 0, window |-> <<>>,
            atRetry |-> FALSE]
NoSend == [sid |-> "", status |-> 0, admittedAt |-> 0, sendCalls |-> 0]
NoBulk == [pc |-> "idle"]

InitSendIdle ==
    /\ clock = 0
    /\ sends = <<>>
    /\ admitLog = [id \in Ids |-> <<>>]
    /\ lastCheck = NoCheck
    /\ retryAt = [id \in Ids |-> 0]
    /\ lastSend = NoSend
    /\ nSends = 0
    /\ nTicks = 0

(* server.js:21-24, 289-295  the process has just started *)
Init ==
    /\ sessions = [id \in Ids |-> NoSession]
    /\ messageTracker = [id \in Ids |-> NoTracker]
    /\ authDir = [id \in Ids |-> FALSE]
    /\ qrFile = [id \in Ids |-> ""]
    /\ socks = <<>>
    /\ qreqs = [r \in 1..MaxQrReqs |-> IdleReq]
    /\ handlers = <<>>
    /\ nEvents = 0
    /\ lastClose = NoClose
    /\ loggedOut = [id \in Ids |-> FALSE]
    /\ unhandled = {}
    /\ InitSendIdle
    /\ bulk = NoBulk

(* The timer latencies the lifecycle runs draw from: a late timer, so that a    *)
(* request is through its ten seconds in two turns                               *)
LateSleeps == {POLL_INTERVAL * 10}

Next ==
    \/ \E r \in 1..MaxQrReqs, id \in Ids : QrRequest(r, id)
    \/ \E r \in 1..MaxQrReqs : QrAuthLoaded(r)
    \/ \E r \in 1..MaxQrReqs : QrSocketMade(r)
    \/ \E r \in 1..MaxQrReqs, d \in LateSleeps : PollWake(r, d)
    \/ \E h \in DOMAIN socks, q \in QRs : EmitQr(h, q)
    \/ \E k \in DOMAIN handlers : ToFileWrite(k)
    \/ \E k \in DOMAIN handlers : ToFileResume(k)
    \/ \E h \in DOMAIN socks : EmitOpen(h)
    \/ \E h \in DOMAIN socks : EmitLoggedOut(h)
    \/ \E h \in DOMAIN socks : EmitClosed(h)
    \/ \E k \in DOMAIN handlers : HandlerAuthLoaded(k)
    \/ \E k \in DOMAIN handlers : HandlerSocketMade(k)

Spec == Init /\ [][Next]_vars

----------------------------------------------------------------------------
(* The single-send path against the clock, on sessions that are connected *)

(* A first GET /qr has made a handle for "s1"; `conn`: it has reported 'open' *)
InitStarted(conn) ==
    /\ socks = <<[sid |-> "s1", live |-> TRUE, opened |-> conn]>>
    /\ sessions = [id \in Ids |->
                      IF id = "s1"
                      THEN [present |-> TRUE, sock |-> 1, isConnected |-> conn,
                            currentQR |-> ""]
                      ELSE NoSession]
    /\ authDir = [id \in Ids |-> id = "s1"]
    /\ qrFile = [id \in Ids |-> ""]
    /\ qreqs = [r \in 1..MaxQrReqs |-> IdleReq]
    /\ handlers = <<>>
    /\ nEvents = 0
    /\ lastClose = NoClose
    /\ loggedOut = [id \in Ids |-> FALSE]
    /\ unhandled = {}

InitConnected == InitStarted(TRUE)

(* Each connected id has had Backlog single sends admitted in the millisecond   *)
(* the clock now shows; no request is in flight                                  *)
InitRate ==
    /\ InitConnected
    /\ clock = 0
    /\ messageTracker = [id \in Ids |->
                            IF sessions[id].present
                            THEN [present |-> TRUE, ts |-> [i \in 1..Backlog |-> 0]]
                            ELSE NoTracker]
    /\ admitLog = [id \in Ids |-> messageTracker[id].ts]
    /\ sends = <<>>
    /\ lastCheck = NoCheck
    /\ retryAt = [id \in Ids |-> 0]
    /\ lastSend = NoSend
    /\ nSends = 0
    /\ nTicks = 0
    /\ bulk = NoBulk

(* The clock advances the rate runs draw from: a millisecond, a second, and all *)
(* but a second of the window                                                    *)
Steps == {1, 1000, TIME_WINDOW - 1000}

NextRate ==
    \/ \E id \in Ids, isString, hasFile, hasUrl \in BOOLEAN :
          SendArrive(id, isString, hasFile, hasUrl)
    \/ \E k \in DOMAIN sends, o \in {"exists", "missing", "throws"} : SendQueried(k, o)
    \/ \E k \in DOMAIN sends, ok \in BOOLEAN : SendFetched(k, ok)
    \/ \E k \in DOMAIN sends, ok \in BOOLEAN : SendSettled(k, ok)
    \/ \E d \in Steps : Tick(d)
    \/ \E id \in Ids : TickToRetry(id)

SpecRate == InitRate /\ [][NextRate]_vars

----------------------------------------------------------------------------
(* The single-send gates: the same requests, on a session that is connected or  *)
(* is not                                                                         *)

(* A handle has been made for "s1" and Backlog single sends were admitted on it; *)
(* the record now in place is connected, or is the not-connected record of a     *)
(* later startSession that the window has outlived                                *)
InitGate ==
    /\ \E conn \in BOOLEAN : InitStarted(conn)
    /\ clock = 0
    /\ messageTracker = [id \in Ids |->
                            IF sessions[id].present
                            THEN [present |-> TRUE, ts |-> [i \in 1..Backlog |-> 0]]
                            ELSE NoTracker]
    /\ admitLog = [id \in Ids |-> messageTracker[id].ts]
    /\ sends = <<>>
    /\ lastCheck = NoCheck
    /\ retryAt = [id \in Ids |-> 0]
    /\ lastSend = NoSend
    /\ nSends = 0
    /\ nTicks = 0
    /\ bulk = NoBulk

SpecGate == InitGate /\ [][NextRate]_vars

----------------------------------------------------------------------------
(* The pairing-image wait: one GET /qr request followed through its 500 ms      *)
(* timers, among the events of the handles                                        *)

(* The timer latencies the wait runs draw from: on time, and two seconds late *)
Sleeps == {POLL_INTERVAL, POLL_INTERVAL + 2000}

NextWait ==
    \/ \E id \in Ids : QrRequest(1, id)
    \/ QrAuthLoaded(1)
    \/ QrSocketMade(1)
    \/ \E d \in Sleeps : PollWake(1, d)
    \/ \E h \in DOMAIN socks, q \in QRs : EmitQr(h, q)
    \/ \E k \in DOMAIN handlers : ToFileWrite(k)
    \/ \E k \in DOMAIN handlers : ToFileResume(k)
    \/ \E h \in DOMAIN socks : EmitOpen(h)
    \/ \E h \in DOMAIN socks : EmitLoggedOut(h)
    \/ \E h \in DOMAIN socks : EmitClosed(h)
    \/ \E k \in DOMAIN handlers : HandlerAuthLoaded(k)
    \/ \E k \in DOMAIN handlers : HandlerSocketMade(k)

(* Node fires a timer that is due, and the two collaborator promises            *)
(* startSession awaits are taken to settle                                        *)
FairWait ==
    /\ WF_vars(QrAuthLoaded(1))
    /\ WF_vars(QrSocketMade(1))
    /\ WF_vars(\E d \in Sleeps : PollWake(1, d))

(* The process has just started, or an earlier request has made a handle *)
InitWait ==
    \/ Init
    \/ /\ InitStarted(FALSE)
       /\ messageTracker = [id \in Ids |-> NoTracker]
       /\ InitSendIdle
       /\ bulk = NoBulk

SpecWait == InitWait /\ [][NextWait]_vars /\ FairWait

----------------------------------------------------------------------------
(* The reconnect: the same steps as the wait's, the startSession a close        *)
(* handler has called being taken to go through                                   *)

(* Opening the handle does not fail: the two promises startSession awaits for   *)
(* the close handler settle                                                       *)
FairReconnect ==
    /\ WF_vars(\E k \in DOMAIN handlers : HandlerAuthLoaded(k))
    /\ WF_vars(\E k \in DOMAIN handlers : HandlerSocketMade(k))

SpecReconnect == InitWait /\ [][NextWait]_vars /\ FairReconnect

----------------------------------------------------------------------------
(* The bulk job: one POST /send-bulk request followed through its awaits *)

InitBulk ==
    /\ \E conn \in BOOLEAN : InitStarted(conn)
    /\ messageTracker = [id \in Ids |-> NoTracker]
    /\ InitSendIdle
    /\ bulk = NoBulk

NextBulk ==
    \/ \E id \in Ids, isArray, hasMessage, retryFailed \in BOOLEAN, numbers \in NumberLists :
          BulkArrive(id, isArray, numbers, hasMessage, retryFailed)
    \/ \E o \in {"exists", "missing", "throws"} : BulkQueried(o)
    \/ \E ok \in BOOLEAN : BulkSent(ok)
    \/ BulkBackedOff
    \/ \E ok \in BOOLEAN : BulkRetried(ok)
    \/ BulkPaced

SpecBulk == InitBulk /\ [][NextBulk]_vars

(* The bulk job on a session whose Rate Window the single sends have filled: a  *)
(* connected record with MESSAGE_LIMIT admissions in the current millisecond, or *)
(* a not-connected record that such a window has outlived                         *)
InitBulkLimited ==
    /\ \E conn \in BOOLEAN : InitStarted(conn)
    /\ messageTracker = [id \in Ids |->
                            IF sessions[id].present
                            THEN [present |-> TRUE, ts |-> [i \in 1..MESSAGE_LIMIT |-> 0]]
                            ELSE NoTracker]
    /\ InitSendIdle
    /\ bulk = NoBulk

SpecBulkLimited == InitBulkLimited /\ [][NextBulk]_vars

----------------------------------------------------------------------------
(* Single sends in flight while the handle of their session closes and the      *)
(* close handler reconnects                                                       *)

NextDispatch ==
    \/ \E id \in Ids, isString, hasFile, hasUrl \in BOOLEAN :
          SendArrive(id, isString, hasFile, hasUrl)
    \/ \E k \in DOMAIN sends, o \in {"exists", "missing", "throws"} : SendQueried(k, o)
    \/ \E k \in DOMAIN sends, ok \in BOOLEAN : SendFetched(k, ok)
    \/ \E k \in DOMAIN sends, ok \in BOOLEAN : SendSettled(k, ok)
    \/ \E d \in Steps : Tick(d)
    \/ \E h \in DOMAIN socks : EmitOpen(h)
    \/ \E h \in DOMAIN socks : EmitClosed(h)
    \/ \E k \in DOMAIN handlers : HandlerAuthLoaded(k)
    \/ \E k \in DOMAIN handlers : HandlerSocketMade(k)

SpecDispatch == InitRate /\ [][NextDispatch]_vars

----------------------------------------------------------------------------
(* Claims *)

LiveSocks(id) == {h \in DOMAIN socks : socks[h].sid = id /\ socks[h].live}
MadeSocks(id) == {h \in DOMAIN socks : socks[h].sid = id}

(* C1: GET /qr requests racing for an id that has no Session record make        *)
(* exactly one protocol handle (one makeWASocket call), and in every state an    *)
(* id has at most one live handle.                                                *)
C1_OneHandlePerId ==
    \A id \in Ids :
        /\ Cardinality(LiveSocks(id)) <= 1
        /\ nEvents = 0 => Cardinality(MadeSocks(id)) <= 1

(* The timestamps of `log` in the trailing window (t - TIME_WINDOW, t] *)
Trailing(log, t) == {j \in DOMAIN log : log[j] <= t /\ t - log[j] < TIME_WINDOW}

(* C2: for every id, the admitted single sends whose timestamps lie in a        *)
(* trailing interval of length TIME_WINDOW are never more than MESSAGE_LIMIT.    *)
(* The count is greatest in an interval that ends at an admission.               *)
C2_WindowBound ==
    \A id \in Ids : \A i \in DOMAIN admitLog[id] :
        Cardinality(Trailing(admitLog[id], admitLog[id][i])) <= MESSAGE_LIMIT

(* The window has moved on: more than MESSAGE_LIMIT sends were admitted in all *)
C2_WindowSlid ==
    \E id \in Ids : Len(admitLog[id]) > MESSAGE_LIMIT

SeqMin(q) == CHOOSE m \in {q[i] : i \in DOMAIN q} : \A i \in DOMAIN q : m <= q[i]

(* C3: a rejected admission check reports retryAfter >= 0, the least whole      *)
(* number of seconds that is no less than the time the oldest remaining          *)
(* timestamp still has in the window; and the check made at exactly now +         *)
(* retryAfter * 1000 for that id, no other admission in between, is admitted.    *)
C3_RetryAfter ==
    /\ (lastCheck.sid # "" /\ ~lastCheck.admitted) =>
          LET left == TIME_WINDOW - (lastCheck.now - SeqMin(lastCheck.window))
          IN  /\ lastCheck.retryAfter >= 0
              /\ lastCheck.retryAfter * 1000 >= left
              /\ (lastCheck.retryAfter - 1) * 1000 < left
    /\ (lastCheck.sid # "" /\ lastCheck.atRetry) => lastCheck.admitted

(* A rejected caller came back at the time it was told, and was admitted *)
C3_RetriedOnTime ==
    lastCheck.sid # "" /\ lastCheck.atRetry /\ lastCheck.admitted

(* C4: once the logged-out close handling has run for an id, its Session        *)
(* record, Rate Window, credential directory and pairing image are absent, and   *)
(* stay absent until startSession is next called for the id. Stated of the ids  *)
(* for which a single handle was ever made, so that racing startSession calls    *)
(* (C1) play no part in it.                                                       *)
C4_LogoutLeavesNothing ==
    \A id \in Ids :
        (loggedOut[id] /\ Cardinality(MadeSocks(id)) = 1) => Absent(id)

(* C5: the logged-out close handling, run for an id whose Session record, Rate  *)
(* Window, credential directory and pairing image are already gone, throws       *)
(* nothing and changes none of them.                                              *)
C5_TeardownIdempotent ==
    (lastClose.reason = "loggedOut" /\ lastClose.wasAbsent) =>
        (~lastClose.threw /\ ~lastClose.changed)

(* The teardown ran again for an id it had already removed *)
C5_SecondTeardown ==
    /\ lastClose.reason = "loggedOut"
    /\ lastClose.wasAbsent
    /\ Cardinality(MadeSocks(lastClose.sid) \ LiveSocks(lastClose.sid)) >= 2

(* C10: a single send that was admitted and whose recipient is not registered   *)
(* is answered 404 with no sendMessage call, and its timestamp stays in the Rate *)
(* Window: while it is in the window, the window holds every admitted timestamp. *)
C10_NotFoundKeepsSlot ==
    lastSend.status = 404 =>
        /\ lastSend.sendCalls = 0
        /\ InWindow(lastSend.admittedAt, clock) =>
              /\ messageTracker[lastSend.sid].present
              /\ Prune(messageTracker[lastSend.sid].ts, clock)
                    = Prune(admitLog[lastSend.sid], clock)

(* A 404 was returned while its admission is still in the window *)
C10_NotFoundReturned ==
    /\ lastSend.status = 404
    /\ InWindow(lastSend.admittedAt, clock)
    /\ lastSend.admittedAt > 0

CallsOf(op, i) == {k \in DOMAIN bulk.calls : bulk.calls[k].op = op /\ bulk.calls[k].i = i}

Backoffs(i) == {k \in CallsOf("delay", i) : bulk.calls[k].ms = RETRY_BACKOFF}

BulkRunning == bulk.pc \notin {"idle", "rejected"}

(* C6: a bulk job on a connected session ends with a report of exactly n        *)
(* entries, entry i for recipient i, the recipients handled in input order, a    *)
(* recipient reported non-existent skipped with no send attempt, and             *)
(* processed = sent + failed + skipped = total.                                   *)
C6_ReportComplete ==
    bulk.pc \in {"done", "aborted"} =>
        /\ bulk.pc = "done"
        /\ Len(bulk.report) = Len(bulk.numbers)
        /\ \A i \in DOMAIN bulk.report : bulk.report[i].number = bulk.numbers[i]
        /\ \A j, k \in DOMAIN bulk.calls : j < k => bulk.calls[j].i <= bulk.calls[k].i
        /\ \A i \in DOMAIN bulk.report :
              bulk.report[i].status = "skipped" => CallsOf("sendMessage", i - 1) = {}
        /\ bulk.processed = bulk.successCount + bulk.failCount + bulk.skippedCount
        /\ bulk.processed = Len(bulk.numbers)

(* C7: in a bulk job no recipient is sent to more than twice; a failed first    *)
(* send is followed, with retryFailed, by exactly one 2 s backoff and one retry, *)
(* reported 'sent (retry)' when the retry succeeds and 'failed' when it fails,   *)
(* and without retryFailed by no retry and 'failed'.                              *)
C7_OneRetry ==
    BulkRunning =>
        /\ \A i \in 0..(Len(bulk.numbers) - 1) :
              /\ Cardinality(CallsOf("sendMessage", i)) <= 2
              /\ Cardinality(Backoffs(i)) <= 1
              /\ Cardinality(CallsOf("sendMessage", i)) = 2 =>
                    /\ bulk.retryFailed
                    /\ Cardinality(Backoffs(i)) = 1
                    /\ \A k \in Backoffs(i) :
                          /\ bulk.calls[k - 1] = Call("sendFailed", i, 0)
                          /\ bulk.calls[k - 2] = Call("sendMessage", i, 0)
                          /\ k + 1 \in DOMAIN bulk.calls =>
                                bulk.calls[k + 1] = Call("sendMessage", i, 0)
        /\ \A i \in DOMAIN bulk.report :
              LET fails == Cardinality(CallsOf("sendFailed", i - 1))
                  tries == Cardinality(CallsOf("sendMessage", i - 1))
              IN  /\ (fails >= 1 /\ bulk.retryFailed) =>
                        /\ tries = 2
                        /\ Cardinality(Backoffs(i - 1)) = 1
                        /\ bulk.report[i].status =
                              (IF fails = 1 THEN "sent (retry)" ELSE "failed")
                  /\ (fails >= 1 /\ ~bulk.retryFailed) =>
                        /\ tries = 1
                        /\ Backoffs(i - 1) = {}
                        /\ bulk.report[i].status = "failed"
                  /\ (fails = 0 /\ tries >= 1) =>
                        /\ tries = 1
                        /\ bulk.report[i].status = "sent"

(* A job is through with a recipient whose first send failed and whose retry    *)
(* went out, and with one whose retry failed too                                  *)
C7_Retried ==
    /\ bulk.pc = "done"
    /\ \E i \in DOMAIN bulk.report : bulk.report[i].status = "sent (retry)"
    /\ \E i \in DOMAIN bulk.report : bulk.report[i].reason = "Retry failed"

(* C8: in a bulk job the call of sock.onWhatsApp for every recipient but the    *)
(* first comes straight after the 500 ms pacing delay that follows the recipient *)
(* before it, whatever that recipient's outcome, a skip included.                 *)
C8_PacedBetweenRecipients ==
    BulkRunning =>
        \A k \in DOMAIN bulk.calls :
            (bulk.calls[k].op = "onWhatsApp" /\ bulk.calls[k].i > 0) =>
                /\ k > 1
                /\ bulk.calls[k - 1] = Call("delay", bulk.calls[k].i - 1, BULK_PACING)

(* A request has just arrived at POST /send *)
SendArrived == nSends' = nSends + 1

(* `new` is what is left of `old` when entries are dropped from its front *)
IsSuffix(new, old) ==
    /\ Len(new) <= Len(old)
    /\ \A i \in DOMAIN new : new[i] = old[i + Len(old) - Len(new)]

(* C11: a single send to a session that is not connected is answered 400, and   *)
(* leaves every Rate Window as it was and starts no protocol call; a single send *)
(* that finds MESSAGE_LIMIT timestamps in the window is answered 429, starts no  *)
(* protocol call, is not logged as admitted, and leaves a window that is what    *)
(* remains of the old one, nothing appended.                                      *)
C11_RefusedSendsTouchNothing ==
    [][SendArrived =>
         /\ (\A id \in Ids : ~(sessions[id].present /\ sessions[id].isConnected)) =>
               /\ lastSend'.status = 400
               /\ messageTracker' = messageTracker
               /\ sends' = sends
               /\ admitLog' = admitLog
         /\ (\A id \in Ids :
                 /\ sessions[id].present /\ sessions[id].isConnected
                 /\ Cardinality(Trailing(messageTracker[id].ts, clock)) >= MESSAGE_LIMIT)
               =>
               /\ lastSend'.status = 429
               /\ sends' = sends
               /\ admitLog' = admitLog
               /\ \A id \in Ids :
                     /\ messageTracker'[id].present = messageTracker[id].present
                     /\ IsSuffix(messageTracker'[id].ts, messageTracker[id].ts)]_vars

(* A send was answered 429, and the window it met is still full *)
C11_Rejected ==
    /\ lastSend.status = 429
    /\ messageTracker[lastSend.sid].present
    /\ Len(messageTracker[lastSend.sid].ts) = MESSAGE_LIMIT
    /\ sends = <<>>

(* C12: no step of a bulk job changes the Rate Window of any id, whatever the   *)
(* job's outcome, and a full Rate Window does not stop a job: the only 400 a     *)
(* well-formed request gets is that of a session that is not connected.          *)
C12_BulkLeavesLimiter ==
    /\ [][bulk' # bulk => messageTracker' = messageTracker]_vars
    /\ [](bulk.pc = "rejected" =>
             \/ bulk.error = "Invalid numbers or message"
             \/ ~(sessions[bulk.sid].present /\ sessions[bulk.sid].isConnected))

(* A job ran to its report on a session whose Rate Window is full *)
C12_RanOnFullWindow ==
    /\ bulk.pc = "done"
    /\ bulk.successCount >= 1
    /\ Len(messageTracker[bulk.sid].ts) >= MESSAGE_LIMIT

(* C13: in a bulk job that is past validation and the connected check, no       *)
(* recipient's failure ends the job: the job is never left without a response,   *)
(* and at its end every recipient has its entry in the report, a recipient whose *)
(* existence query, send or retry failed being reported 'failed'.                 *)
C13_FailuresStayLocal ==
    BulkRunning =>
        /\ bulk.pc # "aborted"
        /\ bulk.pc = "done" =>
              /\ bulk.status = 200
              /\ DOMAIN bulk.report = DOMAIN bulk.numbers
              /\ \A i \in DOMAIN bulk.report :
                    Cardinality(CallsOf("sendFailed", i - 1)) >= 1 =>
                        bulk.report[i].status \in {"failed", "sent (retry)"}

(* The handle h has emitted 'close', or is no longer the one its id's Session   *)
(* record holds                                                                   *)
Retired(h) ==
    \/ ~socks[h].live
    \/ ~sessions[socks[h].sid].present
    \/ sessions[socks[h].sid].sock # h

(* C14: a single send that was suspended while a connection-closed event tore   *)
(* its session down or restarted it calls sendMessage on no retired handle: at   *)
(* every step that issues the call, the handle the request captured at entry is  *)
(* live and is the one the Session record holds.                                  *)
C14_NoCallOnRetiredHandle ==
    [][\A k \in DOMAIN sends :
          (/\ Len(sends') = Len(sends)
           /\ sends[k].pc # "sendMessage"
           /\ sends'[k].pc = "sendMessage") => ~Retired(sends[k].sock)]_vars

(* The id has a pairing artifact: the image file, or the challenge its record   *)
(* holds                                                                          *)
HasArtifact(id) ==
    \/ qrFile[id] # ""
    \/ sessions[id].present /\ sessions[id].currentQR # ""

(* The handle h emits 'close' in this step *)
Closes(h) == socks[h].live /\ ~socks'[h].live

(* C15, as the specification states it: an id whose session is connected, is    *)
(* logged out or has no Session record has no pairing artifact.                   *)
C15_ArtifactOnlyWhilePairing ==
    \A id \in Ids :
        (\/ ~sessions[id].present
         \/ sessions[id].isConnected
         \/ loggedOut[id]) => ~HasArtifact(id)

(* C15, as the code has it: the pairing artifact of an id is removed by the     *)
(* handling of a connection-closed event of the id, logged-out or not, and by    *)
(* nothing else; the step that makes the session connected leaves the image and  *)
(* the challenge in the record as they were.                                      *)
C15_ArtifactClearedOnClose ==
    [][/\ \A h \in DOMAIN socks :
             Closes(h) => ~HasArtifact(socks[h].sid)'
       /\ \A id \in Ids :
             (qrFile[id] # "" /\ qrFile'[id] = "") =>
                 \E h \in DOMAIN socks : socks[h].sid = id /\ Closes(h)
       /\ \A id \in Ids :
             (/\ sessions[id].present /\ ~sessions[id].isConnected
              /\ sessions'[id].present /\ sessions'[id].isConnected) =>
                 /\ qrFile'[id] = qrFile[id]
                 /\ sessions'[id].currentQR = sessions[id].currentQR]_vars

(* A session is connected and the image written while it was pairing is still   *)
(* there, as is the challenge in its record                                       *)
C15_StaleArtifact ==
    \E id \in Ids :
        /\ sessions[id].present
        /\ sessions[id].isConnected
        /\ qrFile[id] # ""
        /\ sessions[id].currentQR # ""

(* A connection.update handler of `id` is suspended at an await (on              *)
(* qrcode.toFile, or in the startSession it called), or a startSession called by *)
(* a GET /qr request for `id` is                                                  *)
MidTransition(id) ==
    \/ \E k \in DOMAIN handlers : handlers[k].sid = id
    \/ \E r \in DOMAIN qreqs : qreqs[r].sid = id /\ qreqs[r].pc \in {"ss_auth", "ss_version"}

(* A connection.update handler of `id` starts to run in this step *)
HandlerStarts(id) ==
    /\ nEvents' = nEvents + 1
    /\ \E h \in DOMAIN socks : socks[h].sid = id /\ socks[h].live

(* C16: the lifecycle transitions of an id are serialized: no connection.update *)
(* handler of the id starts to run while another handler of the id, or a         *)
(* startSession call for it, is suspended part-way.                               *)
C16_TransitionsSerialized ==
    [][\A id \in Ids : HandlerStarts(id) => ~MidTransition(id)]_vars

(* A close handler of `id` is inside the startSession it called *)
Reconnecting(id) ==
    \E k \in DOMAIN handlers :
        handlers[k].sid = id /\ handlers[k].pc \in {"ss_auth", "ss_version"}

C18_ConnectedMeansOpened ==
    \A id \in Ids :
        (sessions[id].present /\ sessions[id].isConnected) =>
            /\ socks[sessions[id].sock].opened
            /\ socks[sessions[id].sock].live

(* C19: whenever a connection.update handler handles a pairing challenge or an  *)
(* 'open', the write after the suspension on qrcode.toFile included, the Session *)
(* record of its id exists: no handler throws on a missing record.                *)
C19_RecordThereWhenHandled ==
    /\ "qr" \notin unhandled
    /\ "open" \notin unhandled

(* C20: with connection-closed events that are not logouts, and the reconnects  *)
(* that follow them, interleaved with the single sends of an id, the single      *)
(* sends admitted for the id in a trailing interval of length TIME_WINDOW, ending *)
(* now or at any admission, are still never more than MESSAGE_LIMIT.              *)
C20_WindowBoundAcrossReconnects ==
    \A id \in Ids :
        \A t \in {clock} \cup {admitLog[id][i] : i \in DOMAIN admitLog[id]} :
            Cardinality(Trailing(admitLog[id], t)) <= MESSAGE_LIMIT

====
